---- MODULE Spec2Model ----
(***************************************************************************)
(* Model of slack_utils.py: the argument classifier (parse_arguments and   *)
(* its five matchers) and the chat-API wrappers with their lru_cache       *)
(* memoisation.                                                            *)
(*                                                                         *)
(* A Python str is a sequence of one-character strings.  A classified      *)
(* value is a record [kind, s, n]: a str (kind "str", text s), an int      *)
(* (kind "int", number n) or None (kind "none").                           *)
(***************************************************************************)
EXTENDS Integers, Sequences, FiniteSets

VARIABLES
    COMMANDS,   \* commands.COMMANDS: command name -> set of the entry's fields
    args,       \* the argument of the parse_arguments call
    typs,       \* its first result list
    vals,       \* its second result list
    outcome,    \* "none" before the call, then "returned" or "raised"
    chanCache,  \* the lru_cache of get_channel_by_name, least recently used first
    userCache,  \* the lru_cache of get_user_by_name, least recently used first
    op,         \* the wrapper called last, "none" before the first call
    opKey,      \* the (slack_client, name) arguments of that call, a lookup
    calls,      \* the API calls it issued: <<[method, ok]>>, in order
    result,     \* how it ended: "returned" or "raised"
    ret         \* the id it returned; 0 when it returned no id

classifierVars == <<COMMANDS, args, typs, vals, outcome>>
apiVars == <<chanCache, userCache, op, opKey, calls, result, ret>>
vars == <<COMMANDS, args, typs, vals, outcome,
          chanCache, userCache, op, opKey, calls, result, ret>>

(***************************************************************************)
(* Bounds of the inputs.                                                   *)
(***************************************************************************)
MaxFrags == 5       \* fragments concatenated into a reference-like token
MaxNumLen == 3      \* characters of a number-like token
MaxArgs == 2        \* tokens of an argument list
NumIds == 2         \* channel and user ids
MaxList == 1        \* entries of a channels.list or users.list response
NumFill == 128      \* further names looked up to fill a cache

(***************************************************************************)
(* Values.                                                                 *)
(***************************************************************************)
StrV(s) == [kind |-> "str", s |-> s, n |-> 0]
IntV(n) == [kind |-> "int", s |-> <<>>, n |-> n]
NoneV == [kind |-> "none", s |-> <<>>, n |-> 0]

ArgumentType == {"CHANNEL", "USER", "EMAIL", "STRING", "COMMAND", "INT"}

\* What a matcher returns: (None, False), or ((typ, val), True).  raised
\* tells that an exception left the matcher instead.
NoMatch == [match |-> FALSE, typ |-> "None", val |-> NoneV, raised |-> FALSE]

Matched(typ, val) == [match |-> TRUE, typ |-> typ, val |-> val, raised |-> FALSE]
Raised == [match |-> FALSE, typ |-> "None", val |-> NoneV, raised |-> TRUE]

(***************************************************************************)
(* Helpers on strings.                                                     *)
(***************************************************************************)
Min(S) == CHOOSE x \in S : \A y \in S : x <= y
Max(S) == CHOOSE x \in S : \A y \in S : y <= x

\* The literal lit stands in s at position i.
LitAt(s, i, lit) ==
    /\ i + Len(lit) - 1 <= Len(s)
    /\ \A k \in 1..Len(lit) : s[i + k - 1] = lit[k]

\* The length of the longest run of characters other than c from position i
\* of s: what the greedy [^c]* takes there.
RunNot(s, i, c) ==
    LET stops == {k \in i..Len(s) : s[k] = c}
    IN  IF stops = {} THEN Len(s) - i + 1 ELSE Min(stops) - i

(***************************************************************************)
(* parse_channel: re.search('<#(?P<id>[^|]+)|(?P<name>[^>])>', s).  The    *)
(* pattern is an alternation of '<#[^|]+' and '[^>]>'.  The search takes   *)
(* the leftmost position where one alternative matches, the first          *)
(* alternative first; group 'id' is None when the second one matched.      *)
(***************************************************************************)
ChannelAlt1At(s, i) == LitAt(s, i, <<"<", "#">>) /\ RunNot(s, i + 2, "|") >= 1
ChannelAlt2At(s, i) == i + 1 <= Len(s) /\ s[i] # ">" /\ s[i + 1] = ">"

parse_channel(s) ==
    LET at == {i \in 1..Len(s) : ChannelAlt1At(s, i) \/ ChannelAlt2At(s, i)}
    IN  IF at = {} THEN NoMatch
        ELSE LET i == Min(at)
             IN  IF ChannelAlt1At(s, i)
                 THEN Matched("CHANNEL",
                              StrV(SubSeq(s, i + 2, i + 1 + RunNot(s, i + 2, "|"))))
                 ELSE Matched("CHANNEL", NoneV)

(***************************************************************************)
(* parse_user: re.search('<@(?P<id>[^>]+)>', s).                           *)
(***************************************************************************)
UserAt(s, i) ==
    /\ LitAt(s, i, <<"<", "@">>)
    /\ RunNot(s, i + 2, ">") >= 1
    /\ i + 2 + RunNot(s, i + 2, ">") <= Len(s)

parse_user(s) ==
    LET at == {i \in 1..Len(s) : UserAt(s, i)}
    IN  IF at = {} THEN NoMatch
        ELSE LET i == Min(at)
             IN  Matched("USER", StrV(SubSeq(s, i + 2, i + 1 + RunNot(s, i + 2, ">"))))

(***************************************************************************)
(* parse_email: re.search('<mailto:(?P<email>[^|]+).+>', s).  [^|]+ is     *)
(* greedy and gives characters back until '.+>' matches after it; '.'      *)
(* matches every character but a line feed.                                *)
(***************************************************************************)
MAILTO == <<"<", "m", "a", "i", "l", "t", "o", ":">>

\* '.+>' matches from position p of s.
DotPlusGtAt(s, p) ==
    \E q \in (p + 1)..Len(s) : s[q] = ">" /\ \A r \in p..(q - 1) : s[r] # "\n"

\* The lengths the group 'email' can have for a match at position i.
EmailLens(s, i) ==
    {k \in 1..RunNot(s, i + Len(MAILTO), "|") : DotPlusGtAt(s, i + Len(MAILTO) + k)}

EmailAt(s, i) == LitAt(s, i, MAILTO) /\ EmailLens(s, i) # {}

parse_email(s) ==
    LET at == {i \in 1..Len(s) : EmailAt(s, i)}
    IN  IF at = {} THEN NoMatch
        ELSE LET i == Min(at)
                 p == i + Len(MAILTO)
             IN  Matched("EMAIL", StrV(SubSeq(s, p, p + Max(EmailLens(s, i)) - 1)))

(***************************************************************************)
(* parse_command.                                                          *)
(***************************************************************************)
\* parse_command without the test for the 'key' field.
parse_command_any_entry(s, registry) ==
    IF s \in DOMAIN registry THEN Matched("COMMAND", StrV(s)) ELSE NoMatch

parse_command(s, registry) ==
    IF s \in DOMAIN registry
    THEN IF "key" \in registry[s] THEN Matched("COMMAND", StrV(s)) ELSE NoMatch
    ELSE NoMatch

(***************************************************************************)
(* int(s) of a str, base 10: white space is stripped at both ends, then an *)
(* optional sign, then decimal digits, which single underscores may        *)
(* separate.  Anything else is a ValueError.                               *)
(***************************************************************************)
Whitespace == {" ", "\t", "\n", "\r"}
Digits == {"0", "1", "2", "3", "4", "5", "6", "7", "8", "9"}
DigitVal(c) ==
    CASE c = "0" -> 0 [] c = "1" -> 1 [] c = "2" -> 2 [] c = "3" -> 3 [] c = "4" -> 4
      [] c = "5" -> 5 [] c = "6" -> 6 [] c = "7" -> 7 [] c = "8" -> 8 [] c = "9" -> 9

\* s.strip()
Strip(s) ==
    LET ink == {k \in 1..Len(s) : s[k] \notin Whitespace}
    IN  IF ink = {} THEN <<>> ELSE SubSeq(s, Min(ink), Max(ink))

\* The digits of a literal, underscores allowed between two digits.
IsDigitsBody(b) ==
    /\ Len(b) >= 1
    /\ \A k \in 1..Len(b) : b[k] \in Digits \cup {"_"}
    /\ b[1] \in Digits /\ b[Len(b)] \in Digits
    /\ \A k \in 1..(Len(b) - 1) : ~(b[k] = "_" /\ b[k + 1] = "_")

RECURSIVE DigitsValue(_, _)
DigitsValue(b, acc) ==
    IF b = <<>> THEN acc
    ELSE IF Head(b) = "_" THEN DigitsValue(Tail(b), acc)
    ELSE DigitsValue(Tail(b), 10 * acc + DigitVal(Head(b)))

PyInt(s) ==
    LET t == Strip(s)
        signed == Len(t) >= 1 /\ t[1] \in {"+", "-"}
        body == IF signed THEN Tail(t) ELSE t
    IN  IF IsDigitsBody(body)
        THEN [ok |-> TRUE,
              n |-> IF signed /\ t[1] = "-" THEN 0 - DigitsValue(body, 0)
                    ELSE DigitsValue(body, 0)]
        ELSE [ok |-> FALSE, n |-> 0]

\* parse_int without its except clause: the ValueError leaves the matcher.
parse_int_uncaught(s) ==
    LET r == PyInt(s)
    IN  IF r.ok THEN Matched("INT", IntV(r.n)) ELSE Raised

\* parse_int: the ValueError of int() is caught and becomes (None, False).
parse_int(s) ==
    LET r == PyInt(s)
    IN  IF r.ok THEN Matched("INT", IntV(r.n)) ELSE NoMatch

(***************************************************************************)
(* parse_arguments.                                                        *)
(***************************************************************************)
\* [parse(arg) for parse in [parse_channel, parse_user, parse_email,
\* parse_command, parse_int]], in the order of the loop.
ParseResults(arg, registry) ==
    <<parse_channel(arg), parse_user(arg), parse_email(arg),
      parse_command(arg, registry), parse_int(arg)>>

\* The inner loop leaving at the first match (a break after the assignment).
RECURSIVE ForParseFirstMatch(_, _, _)
ForParseFirstMatch(results, typ, val) ==
    IF results = <<>> THEN [typ |-> typ, val |-> val, raised |-> FALSE]
    ELSE LET r == Head(results)
         IN  IF r.raised THEN [typ |-> typ, val |-> val, raised |-> TRUE]
             ELSE IF r.match THEN [typ |-> r.typ, val |-> r.val, raised |-> FALSE]
             ELSE ForParseFirstMatch(Tail(results), typ, val)

\* The inner loop over the matchers: every match overwrites typ and val.
RECURSIVE ForParse(_, _, _)
ForParse(results, typ, val) ==
    IF results = <<>> THEN [typ |-> typ, val |-> val, raised |-> FALSE]
    ELSE LET r == Head(results)
         IN  IF r.raised THEN [typ |-> typ, val |-> val, raised |-> TRUE]
             ELSE IF r.match THEN ForParse(Tail(results), r.typ, r.val)
             ELSE ForParse(Tail(results), typ, val)

\* The outer loop skipping a token it has already classified.
RECURSIVE ForArgsOnce(_, _, _, _, _)
ForArgsOnce(rest, registry, ts, vs, seen) ==
    IF rest = <<>> THEN [typs |-> ts, vals |-> vs, raised |-> FALSE]
    ELSE LET arg == Head(rest)
             r == ForParse(ParseResults(arg, registry), "STRING", StrV(arg))
         IN  IF arg \in seen THEN ForArgsOnce(Tail(rest), registry, ts, vs, seen)
             ELSE IF r.raised THEN [typs |-> <<>>, vals |-> <<>>, raised |-> TRUE]
             ELSE ForArgsOnce(Tail(rest), registry, Append(ts, r.typ),
                              Append(vs, r.val), seen \cup {arg})

ForArgsSkipRepeated(rest, registry, ts, vs) == ForArgsOnce(rest, registry, ts, vs, {})

\* The outer loop over args, appending to typs and vals.
RECURSIVE ForArgs(_, _, _, _)
ForArgs(rest, registry, ts, vs) ==
    IF rest = <<>> THEN [typs |-> ts, vals |-> vs, raised |-> FALSE]
    ELSE LET arg == Head(rest)
             r == ForParse(ParseResults(arg, registry), "STRING", StrV(arg))
         IN  IF r.raised THEN [typs |-> <<>>, vals |-> <<>>, raised |-> TRUE]
             ELSE ForArgs(Tail(rest), registry, Append(ts, r.typ), Append(vs, r.val))

parse_arguments(a, registry) == ForArgs(a, registry, <<>>, <<>>)

(***************************************************************************)
(* The inputs: tokens built from the fragments the matchers look for, and  *)
(* the registries.                                                         *)
(***************************************************************************)
RefFrags == {<<"<", "#">>, <<"<", "@">>, MAILTO, <<"|">>, <<">">>, <<"a">>}
NumChars == {"5", "0", "-", "+", "_", " ", "a"}

RECURSIVE RefTokens(_)
RefTokens(n) ==
    IF n = 0 THEN {<<>>}
    ELSE LET prev == RefTokens(n - 1)
         IN  prev \cup {t \o f : t \in prev, f \in RefFrags}

RECURSIVE NumTokens(_)
NumTokens(n) ==
    IF n = 0 THEN {<<>>}
    ELSE LET prev == NumTokens(n - 1)
         IN  prev \cup {Append(t, c) : t \in prev, c \in NumChars}

\* One token of each shape, for the lists of several tokens.
SampleTokens ==
    {<<>>, <<"a">>, <<"5">>, <<"<", "@", "a", ">">>, <<"<", "#", "a", "|", "a", ">">>,
     MAILTO \o <<"a", "|", "a", ">">>}

RECURSIVE Lists(_, _)
Lists(S, n) ==
    IF n = 0 THEN {<<>>}
    ELSE LET prev == Lists(S, n - 1)
         IN  prev \cup {Append(l, t) : l \in prev, t \in S}

ArgLists ==
    {<<t>> : t \in RefTokens(MaxFrags) \cup NumTokens(MaxNumLen)}
        \cup Lists(SampleTokens, MaxArgs)

CmdNames == {<<"a">>, <<"5">>}
Entries == {{"key", "help"}, {"help"}}
Registries == UNION {[S -> Entries] : S \in SUBSET CmdNames}

(***************************************************************************)
(* The API wrappers.  A response of slack_client.api_call is an input of   *)
(* the call: [ok, items], items the 'channels' or 'members' list, each     *)
(* entry [name, id].  A name is a pair <<stem, number>>.                   *)
(***************************************************************************)
maxsize == 128                  \* functools.lru_cache() default
slack_client == "slack_client"
CHANNEL == <<"general", 0>>     \* config.CHANNEL
MEMBER == <<"keri", 0>>         \* a user's name
Name(k) == <<"ch", k>>
Ids == 1..NumIds

Call(method, ok) == [method |-> method, ok |-> ok]
Raise == [raised |-> TRUE, value |-> 0]
Return(v) == [raised |-> FALSE, value |-> v]

\* No wrapper has been called.
ApiIdle ==
    /\ chanCache = <<>>
    /\ userCache = <<>>
    /\ op = "none"
    /\ opKey = <<>>
    /\ calls = <<>>
    /\ result = "none"
    /\ ret = 0

\* for x in items: if x['name'] == name: return x['id'];  raise Exception(...)
RECURSIVE FindByName(_, _)
FindByName(items, name) ==
    IF items = <<>> THEN Raise
    ELSE IF Head(items).name = name THEN Return(Head(items).id)
    ELSE FindByName(Tail(items), name)

\* The bodies of get_channel_by_name and get_user_by_name, given the response.
LookupBody(response, name) ==
    IF ~response.ok THEN Raise ELSE FindByName(response.items, name)

(***************************************************************************)
(* functools.lru_cache(maxsize=128): a hit returns the cached value and    *)
(* makes the key the most recently used; a miss calls the function, and    *)
(* caches its value unless it raised, dropping the least recently used key *)
(* when maxsize keys are cached.                                           *)
(***************************************************************************)
CacheHas(cache, key) == \E i \in DOMAIN cache : cache[i].key = key
CacheIndex(cache, key) == CHOOSE i \in DOMAIN cache : cache[i].key = key
CacheId(cache, key) == cache[CacheIndex(cache, key)].id

Touch(cache, key) ==
    LET i == CacheIndex(cache, key)
    IN  SubSeq(cache, 1, i - 1) \o SubSeq(cache, i + 1, Len(cache)) \o <<cache[i]>>

Store(cache, key, id) ==
    Append(IF Len(cache) >= maxsize THEN Tail(cache) ELSE cache,
           [key |-> key, id |-> id])

\* A wrapper that calls the function every time and caches nothing.
lru_cache_call_uncached(cache, key, computed) ==
    [cache |-> cache, hit |-> FALSE, raised |-> computed.raised, value |-> computed.value]

\* computed is what the wrapped function does if it is called.
lru_cache_call(cache, key, computed) ==
    IF CacheHas(cache, key)
    THEN [cache |-> Touch(cache, key), hit |-> TRUE, raised |-> FALSE,
          value |-> CacheId(cache, key)]
    ELSE IF computed.raised
    THEN [cache |-> cache, hit |-> FALSE, raised |-> TRUE, value |-> 0]
    ELSE [cache |-> Store(cache, key, computed.value), hit |-> FALSE,
          raised |-> FALSE, value |-> computed.value]

(***************************************************************************)
(* The wrappers.                                                           *)
(***************************************************************************)
\* post_message that returns the response whatever its 'ok'.
PostMessageNoRaise(ok) ==
    /\ op' = "post_message"
    /\ opKey' = <<>>
    /\ calls' = <<Call("chat.postMessage", ok)>>
    /\ result' = "returned"
    /\ ret' = 0
    /\ UNCHANGED <<chanCache, userCache>>
    /\ UNCHANGED classifierVars

PostMessage(ok) ==
    /\ op' = "post_message"
    /\ opKey' = <<>>
    /\ calls' = <<Call("chat.postMessage", ok)>>
    /\ result' = IF ok THEN "returned" ELSE "raised"
    /\ ret' = 0
    /\ UNCHANGED <<chanCache, userCache>>
    /\ UNCHANGED classifierVars

GetChannelByName(client, channel, response) ==
    LET key == <<client, channel>>
        r == lru_cache_call(chanCache, key, LookupBody(response, channel))
    IN  /\ op' = "get_channel_by_name"
        /\ opKey' = key
        /\ calls' = IF r.hit THEN <<>> ELSE <<Call("channels.list", response.ok)>>
        /\ result' = IF r.raised THEN "raised" ELSE "returned"
        /\ ret' = r.value
        /\ chanCache' = r.cache
        /\ UNCHANGED userCache
        /\ UNCHANGED classifierVars

GetUserByName(client, user, response) ==
    LET key == <<client, user>>
        r == lru_cache_call(userCache, key, LookupBody(response, user))
    IN  /\ op' = "get_user_by_name"
        /\ opKey' = key
        /\ calls' = IF r.hit THEN <<>> ELSE <<Call("users.list", response.ok)>>
        /\ result' = IF r.raised THEN "raised" ELSE "returned"
        /\ ret' = r.value
        /\ userCache' = r.cache
        /\ UNCHANGED chanCache
        /\ UNCHANGED classifierVars

GetSelf(ok, user_id) ==
    /\ op' = "get_self"
    /\ opKey' = <<>>
    /\ calls' = <<Call("auth.test", ok)>>
    /\ result' = IF ok THEN "returned" ELSE "raised"
    /\ ret' = IF ok THEN user_id ELSE 0
    /\ UNCHANGED <<chanCache, userCache>>
    /\ UNCHANGED classifierVars

\* event is [channel]; its 'ts' only goes into the chat.delete request.
DeleteMessage(client, event, response, deleteOk) ==
    LET key == <<client, CHANNEL>>
        r == lru_cache_call(chanCache, key, LookupBody(response, CHANNEL))
        looked == IF r.hit THEN <<>> ELSE <<Call("channels.list", response.ok)>>
    IN  /\ op' = "delete_message"
        /\ opKey' = <<>>
        /\ chanCache' = r.cache
        /\ ret' = 0
        /\ IF r.raised
           THEN calls' = looked /\ result' = "raised"
           ELSE IF event.channel # r.value
           THEN calls' = looked /\ result' = "returned"
           ELSE /\ calls' = Append(looked, Call("chat.delete", deleteOk))
                /\ result' = "returned"
        /\ UNCHANGED userCache
        /\ UNCHANGED classifierVars

(***************************************************************************)
(* The inputs of the wrappers.                                             *)
(***************************************************************************)
\* The responses whose list names `name` or another name.
Responses(name) ==
    {[ok |-> FALSE, items |-> <<>>]}
        \cup {[ok |-> TRUE, items |-> l] :
                l \in Lists([name : {name, Name(1)}, id : Ids], MaxList)}

Events == [channel : Ids]

\* No call of parse_arguments.
ClassifierIdle ==
    /\ COMMANDS = <<>>
    /\ args = <<>>
    /\ typs = <<>>
    /\ vals = <<>>
    /\ outcome = "none"

InitApi == ClassifierIdle /\ ApiIdle

NextApi ==
    \/ \E ok \in BOOLEAN : PostMessage(ok)
    \/ \E response \in Responses(CHANNEL) :
          GetChannelByName(slack_client, CHANNEL, response)
    \/ \E response \in Responses(MEMBER) :
          GetUserByName(slack_client, MEMBER, response)
    \/ \E ok \in BOOLEAN, user_id \in Ids : GetSelf(ok, user_id)
    \/ \E event \in Events, response \in Responses(CHANNEL), deleteOk \in BOOLEAN :
          DeleteMessage(slack_client, event, response, deleteOk)

SpecApi == InitApi /\ [][NextApi]_vars

(***************************************************************************)
(* A process that fills a cache: it looks up one name again and again, and *)
(* between these lookups further names, each found under id 1.  The        *)
(* further names are alike, so they are taken in the order Name(1),        *)
(* Name(2), ...; the process uses one of the two memoised functions.       *)
(***************************************************************************)
FillNumbers(cache) ==
    {cache[i].key[2][2] : i \in {j \in DOMAIN cache : cache[j].key[2][1] = "ch"}}

NextFill(cache) == IF FillNumbers(cache) = {} THEN 1 ELSE Max(FillNumbers(cache)) + 1

\* The responses to a lookup of the repeated name: a failure, a list without
\* the name, and the lists that give the name any id.
LruResponses(name) ==
    {[ok |-> FALSE, items |-> <<>>], [ok |-> TRUE, items |-> <<>>]}
        \cup {[ok |-> TRUE, items |-> <<[name |-> name, id |-> i]>>] : i \in Ids}

\* The response to a lookup of a further name.
FillResponse(name) == [ok |-> TRUE, items |-> <<[name |-> name, id |-> 1]>>]

NextLru ==
    \/ /\ userCache = <<>>
       /\ \/ \E response \in LruResponses(CHANNEL) :
                GetChannelByName(slack_client, CHANNEL, response)
          \/ /\ NextFill(chanCache) <= NumFill
             /\ GetChannelByName(slack_client, Name(NextFill(chanCache)),
                                 FillResponse(Name(NextFill(chanCache))))
    \/ /\ chanCache = <<>>
       /\ \/ \E response \in LruResponses(MEMBER) :
                GetUserByName(slack_client, MEMBER, response)
          \/ /\ NextFill(userCache) <= NumFill
             /\ GetUserByName(slack_client, Name(NextFill(userCache)),
                              FillResponse(Name(NextFill(userCache))))

SpecLru == InitApi /\ [][NextLru]_vars

(***************************************************************************)
(* The classifier: a call of parse_arguments on any argument list, under   *)
(* any registry.                                                           *)
(***************************************************************************)
Init ==
    /\ COMMANDS \in Registries
    /\ args \in ArgLists
    /\ typs = <<>>
    /\ vals = <<>>
    /\ outcome = "none"
    /\ ApiIdle

ParseArguments ==
    LET r == parse_arguments(args, COMMANDS)
    IN  /\ outcome = "none"
        /\ typs' = r.typs
        /\ vals' = r.vals
        /\ outcome' = IF r.raised THEN "raised" ELSE "returned"
        /\ UNCHANGED <<COMMANDS, args>>
        /\ UNCHANGED apiVars

Next == ParseArguments

Spec == Init /\ [][Next]_vars

(***************************************************************************)
(* Properties of the classifier.                                           *)
(***************************************************************************)
Returned == outcome = "returned"
SameLengths == Len(typs) = Len(args) /\ Len(vals) = Len(args)

\* C1: the kind and value of every token are those of the last matcher, in
\* the order channel, user, email, command, integer, that matches it; a token
\* that is a voteable command and an integer is an Integer.
C1_LastMatchWins ==
    Returned =>
        /\ SameLengths
        /\ \A i \in 1..Len(args) :
              LET t == args[i]
                  expected ==
                      IF parse_int(t).match THEN parse_int(t)
                      ELSE IF parse_command(t, COMMANDS).match
                           THEN parse_command(t, COMMANDS)
                      ELSE IF parse_email(t).match THEN parse_email(t)
                      ELSE IF parse_user(t).match THEN parse_user(t)
                      ELSE IF parse_channel(t).match THEN parse_channel(t)
                      ELSE Matched("STRING", StrV(t))
              IN  typs[i] = expected.typ /\ vals[i] = expected.val

\* The command named "5", voteable, is classified Integer 5.
C1_Witness ==
    /\ Returned
    /\ args = << <<"5">> >>
    /\ <<"5">> \in DOMAIN COMMANDS
    /\ "key" \in COMMANDS[<<"5">>]
    /\ typs = <<"INT">>
    /\ vals = <<IntV(5)>>

\* C2: the two results are as long as the token list, and the pair at every
\* index is the classification of that token alone.
C2_LengthAndOrder ==
    Returned =>
        /\ SameLengths
        /\ \A i \in 1..Len(args) :
              LET alone == parse_arguments(<<args[i]>>, COMMANDS)
              IN  typs[i] = alone.typs[1] /\ vals[i] = alone.vals[1]

\* A list of two tokens, the same non-empty token twice.
C2_Witness ==
    /\ Returned
    /\ Len(args) = 2
    /\ args[1] = args[2]
    /\ args[1] # <<>>
    /\ Len(typs) = 2 /\ Len(vals) = 2

\* C3: no call raises, and a token no matcher matches is a String whose value
\* is the token; so is the empty string.
C3_NeverRaises ==
    /\ outcome # "raised"
    /\ Returned =>
          /\ SameLengths
          /\ \A i \in 1..Len(args) :
                LET t == args[i]
                IN  (\/ t = <<>>
                     \/ /\ ~parse_channel(t).match
                        /\ ~parse_user(t).match
                        /\ ~parse_email(t).match
                        /\ ~parse_command(t, COMMANDS).match
                        /\ ~PyInt(t).ok)
                    => typs[i] = "STRING" /\ vals[i] = StrV(t)

\* The empty string has been classified (String, "").
C3_Witness ==
    /\ Returned
    /\ args = << <<>> >>
    /\ typs = <<"STRING">>
    /\ vals = <<StrV(<<>>)>>

\* C4: a token classified Channel contains '<#' and its value is a non-empty
\* string, the text that follows '<#'; the value is never None.
C4_ChannelValueIsId ==
    (Returned /\ SameLengths) =>
        \A i \in 1..Len(args) :
            typs[i] = "CHANNEL" =>
                /\ vals[i].kind = "str"
                /\ vals[i].s # <<>>
                /\ \E p \in 1..Len(args[i]) :
                      /\ LitAt(args[i], p, <<"<", "#">>)
                      /\ LitAt(args[i], p + 2, vals[i].s)

\* C5: a token classified Email holds '<mailto:EMAIL|REST>' with REST not
\* empty, and its value is EMAIL.  (The claim asks this shape of the whole
\* token; here it may stand anywhere in it.)
C5_EmailShape ==
    (Returned /\ SameLengths) =>
        \A i \in 1..Len(args) :
            typs[i] = "EMAIL" =>
                \E p \in 1..Len(args[i]) :
                    LET t == args[i]
                        e == vals[i].s
                        bar == p + Len(MAILTO) + Len(e)
                    IN  /\ LitAt(t, p, MAILTO)
                        /\ e # <<>>
                        /\ LitAt(t, p + Len(MAILTO), e)
                        /\ LitAt(t, bar, <<"|">>)
                        /\ \E q \in (bar + 2)..Len(t) : t[q] = ">"

\* An optional sign, then decimal digits only.
IsSignedDigits(t) ==
    LET body == IF t # <<>> /\ t[1] \in {"+", "-"} THEN Tail(t) ELSE t
    IN  body # <<>> /\ \A k \in 1..Len(body) : body[k] \in Digits

\* C6: a token is classified Integer exactly when all of it is an optional
\* sign followed by decimal digits.
C6_IntegerLiteralOnly ==
    (Returned /\ SameLengths) =>
        \A i \in 1..Len(args) : typs[i] = "INT" <=> IsSignedDigits(args[i])

\* A token that is no integer and no reference: no digit, no '<', no '>'.
IsPlainWord(t) == \A k \in 1..Len(t) : t[k] \notin Digits \cup {"<", ">"}
IsVoteable(t) == t \in DOMAIN COMMANDS /\ "key" \in COMMANDS[t]

\* C7: a token is classified Command only if it is a key of the registry whose
\* entry has a 'key' field, its value being the token; a plain word is a
\* Command if it is such a key and a String otherwise; the registry is never
\* changed.
C7_CommandMatcher ==
    /\ [](Returned =>
            /\ SameLengths
            /\ \A i \in 1..Len(args) :
                  /\ typs[i] = "COMMAND" => IsVoteable(args[i])
                  /\ IsPlainWord(args[i]) =>
                        /\ typs[i] = IF IsVoteable(args[i]) THEN "COMMAND" ELSE "STRING"
                        /\ vals[i] = StrV(args[i]))
    /\ [][COMMANDS' = COMMANDS]_vars

\* The word "a", a registry key whose entry lacks the 'key' field, has been
\* classified String.
C7_Witness ==
    /\ Returned
    /\ args = << <<"a">> >>
    /\ <<"a">> \in DOMAIN COMMANDS
    /\ "key" \notin COMMANDS[<<"a">>]
    /\ typs = <<"STRING">>
    /\ vals = <<StrV(<<"a">>)>>

\* C8: a token '<@ID>', ID not empty and without '>', that is no registry key
\* (and, with its '<', no integer) is classified User with value ID.
C8_UserShape ==
    (Returned /\ SameLengths) =>
        \A i \in 1..Len(args) :
            LET t == args[i]
                id == SubSeq(t, 3, Len(t) - 1)
            IN  (/\ Len(t) >= 4
                 /\ LitAt(t, 1, <<"<", "@">>)
                 /\ t[Len(t)] = ">"
                 /\ \A k \in 1..Len(id) : id[k] # ">"
                 /\ t \notin DOMAIN COMMANDS)
                => typs[i] = "USER" /\ vals[i] = StrV(id)

(***************************************************************************)
(* Properties of the API wrappers.                                         *)
(***************************************************************************)
\* C9 as claimed: no wrapper returns normally after an API call of its own
\* came back with 'ok' false.
C9_AlwaysRaises ==
    result = "returned" => \A i \in DOMAIN calls : calls[i].ok

\* C9, amended: after a failed API call a wrapper raises, but for
\* delete_message after a failed chat.delete, which returns normally.
C9_RaisesButDelete ==
    \A i \in DOMAIN calls :
        ~calls[i].ok =>
            IF op = "delete_message" /\ calls[i].method = "chat.delete"
            THEN result = "returned"
            ELSE result = "raised"

\* post_message has raised after a failed chat.postMessage.
C9_Witness ==
    /\ op = "post_message"
    /\ calls = <<Call("chat.postMessage", FALSE)>>
    /\ result = "raised"

Cached(cache) == {cache[i] : i \in DOMAIN cache}

\* A step of a memoised lookup, from cache c to cache c2: a cached key is
\* answered from the cache, with its id and without an API call; any other
\* key costs one call of the API method, and is cached, under the id returned,
\* exactly if the lookup did not raise.
MemoStep(c, c2, method) ==
    IF CacheHas(c, opKey')
    THEN /\ result' = "returned"
         /\ ret' = CacheId(c, opKey')
         /\ calls' = <<>>
         /\ CacheHas(c2, opKey') /\ CacheId(c2, opKey') = ret'
    ELSE /\ Len(calls') = 1 /\ calls'[1].method = method
         /\ IF result' = "raised"
            THEN c2 = c
            ELSE CacheHas(c2, opKey') /\ CacheId(c2, opKey') = ret'

MemoSteps ==
    /\ op' = "get_channel_by_name" => MemoStep(chanCache, chanCache', "channels.list")
    /\ op' = "get_user_by_name" => MemoStep(userCache, userCache', "users.list")

\* C10 as claimed: the caches are never invalidated: a cached entry stays, with
\* its id, so that every later lookup of its key is answered from the cache.
C10_NeverInvalidated ==
    [][/\ MemoSteps
       /\ Cached(chanCache) \subseteq Cached(chanCache')
       /\ Cached(userCache) \subseteq Cached(userCache')]_vars

\* The only entry a step drops is the least recently used one, and only when
\* maxsize keys are cached and the lookup of a further key succeeds.
DropsOnlyLru(c, c2) ==
    \/ Cached(c) \subseteq Cached(c2)
    \/ /\ Len(c) = maxsize
       /\ ~CacheHas(c, opKey')
       /\ result' = "returned"
       /\ Cached(c) \ Cached(c2) = {c[1]}
       /\ \A i \in 2..Len(c) : c2[i - 1] = c[i]

\* C10, amended: a cache holds at most maxsize = 128 keys (slack_client, name);
\* a cached key is answered from the cache, a failed lookup is not cached, and
\* an entry is dropped only by the eviction of the least recently used key.
C10_LruBounded ==
    [][/\ MemoSteps
       /\ Len(chanCache') <= maxsize /\ Len(userCache') <= maxsize
       /\ DropsOnlyLru(chanCache, chanCache')
       /\ DropsOnlyLru(userCache, userCache')]_vars

\* The configured channel has been answered from a full cache.
C10_Witness ==
    /\ op = "get_channel_by_name"
    /\ opKey = <<slack_client, CHANNEL>>
    /\ calls = <<>>
    /\ result = "returned"
    /\ Len(chanCache) = maxsize

====
